---- MODULE Spec2Model ----
(***************************************************************************)
(* SafeSight: the LiveStream component (WHEP/WebRTC session negotiation)   *)
(* and the App host (recording pipeline, capture, artifact lists).         *)
(*                                                                         *)
(* All work runs on the UI thread: every action below is one task of the   *)
(* event loop (an event handler, an effect, or the continuation of an      *)
(* async function between two awaits).                                     *)
(***************************************************************************)
EXTENDS Integers, Sequences, FiniteSets, TLC

\* ------------------------------------------------------------------ bounds
MaxSessions == 3        \* effect runs (mount + streamUrl changes) per page load
MaxRecorders == 2       \* MediaRecorder constructions per page load
MaxChunks == 1          \* timeslice dataavailable events per page load
MaxTicks == 2           \* advances of the wall clock
MaxArtifacts == 6       \* artifacts of one kind (captures, recordings) per page load
MaxSeconds == 3         \* timeslices that elapse on recording recorders
MaxTimers == 3          \* 300 ms timeouts of handleViewerClose waiting to fire
MaxCameras == 3         \* CameraFeed instances mounted per page load

\* --------------------------------------------------------------- constants
TickSteps == {500}      \* advances of Date.now() between two tasks (ms)
KeepRecent == 4          \* prev.slice(0, 4)
Timeslice == 1000       \* mediaRecorder.start(1000), in ms
WHEP_URL == "a"         \* the constant streamUrl the App passes
Urls == {"", "a", "b"}  \* streamUrl prop values; "" is the falsy URL
RiskSets == {0, 1}      \* identities of the detectedRisks arrays the host renders
NoError == "null"
NoToast == <<"none", "">>
NoRisks == "unset"
ErrorText == "Cannot connect to Camera. Check Raspberry Pi."
Images == {1, 2}        \* identities of the CapturedImage objects the gallery shows
Videos == {1, 2}        \* identities of the RecordedVideo objects the gallery shows
NoMedia == <<"null", 0>>

VARIABLES
    mounted,            \* LiveStream instance is mounted
    streamUrl,          \* current streamUrl prop
    phase,              \* "idle" | "effect": the effect of the last commit has still to run
    connectionStatus,   \* useState 'connecting' | 'connected' | 'error'
    errorMessage,       \* useState string | null
    pcs,                \* every RTCPeerConnection constructed, in construction order
    pcRef,              \* pcRef.current: index into pcs, 0 = null
    srcObject,          \* videoRef.current.srcObject: stream id, 0 = null
    streamRef,          \* streamRef.current: stream id, 0 = null
    videoWidth,         \* videoRef.current.videoWidth
    zoomLevel,          \* useState zoomLevel: 1 | 2
    sess,               \* one record per effect run: the closure of startStream
    isRecording,        \* App useState
    detectedRisks,      \* App useState (identity of the current array)
    recorders,          \* every MediaRecorder constructed
    mediaRecorderRef,   \* mediaRecorderRef.current: index into recorders, 0 = null
    recordedChunksRef,  \* recordedChunksRef.current: sequence of chunks
    recordingStartTimeRef,
    now,                \* Date.now()
    recordedVideos,     \* App useState, newest first
    capturedImages,     \* App useState, newest first
    toast,              \* the most recent toast: <<kind, title>>
    vp9,                \* does this browser's MediaRecorder take 'video/webm;codecs=vp9':
                        \* "unknown" until the first construction, then "yes" or "no"
    viewerOpen,         \* App useState
    selectedMedia,      \* App useState: <<"image", id>> | <<"video", id>> | NoMedia
    mediaType,          \* App useState 'image' | 'video'
    clearTimers,        \* setTimeout callbacks of handleViewerClose not yet run
    zoom,               \* MediaViewer useState zoom: 1 | 2
    isPlaying,          \* MediaViewer useState
    cameras             \* one record per CameraFeed instance: its refs, its state
                        \* and the stream its getUserMedia call obtained

lsVars == <<mounted, streamUrl, phase, connectionStatus, errorMessage, pcs, pcRef,
            srcObject, streamRef, videoWidth, zoomLevel, sess>>
appVars == <<isRecording, detectedRisks, recorders, mediaRecorderRef, recordedChunksRef,
             recordingStartTimeRef, now, recordedVideos, capturedImages, toast, vp9>>
viewerVars == <<viewerOpen, selectedMedia, mediaType, clearTimers, zoom, isPlaying>>
vars == <<mounted, streamUrl, phase, connectionStatus, errorMessage, pcs, pcRef,
          srcObject, streamRef, videoWidth, zoomLevel, sess,
          isRecording, detectedRisks, recorders, mediaRecorderRef, recordedChunksRef,
          recordingStartTimeRef, now, recordedVideos, capturedImages, toast, vp9,
          viewerOpen, selectedMedia, mediaType, clearTimers, zoom, isPlaying, cameras>>

\* ------------------------------------------------------------------ helpers
\* new RTCPeerConnection(...): an open connection without remote description
\* and without transceivers. kind "main" is the connection of line 582,
\* "temp" the one of line 616.
NewPc(kind, owner) ==
    [kind |-> kind, owner |-> owner, closed |-> FALSE, remote |-> FALSE, tracked |-> FALSE,
     recvonly |-> FALSE]

\* pc.addTransceiver('video', { direction: 'recvonly' }) (line 597)
addTransceiver(pc) == [pc EXCEPT !.recvonly = TRUE]

\* if (pcRef.current) pcRef.current.close();
ClosePcRef(ps, ref) ==
    IF ref = 0 THEN ps ELSE [ps EXCEPT ![ref].closed = TRUE]

OpenPcs == {p \in DOMAIN pcs : ~pcs[p].closed}

\* the session whose effect is the live one (its cleanup has not run)
Live == {s \in DOMAIN sess : sess[s].isMounted}

\* getStream: () => streamRef.current
getStream == streamRef

\* ---------------------------------------------------------------- LiveStream
Init ==
    /\ mounted = FALSE
    /\ streamUrl = ""
    /\ phase = "idle"
    /\ connectionStatus = "connecting"
    /\ errorMessage = NoError
    /\ pcs = <<>>
    /\ pcRef = 0
    /\ srcObject = 0
    /\ streamRef = 0
    /\ videoWidth = 0
    /\ zoomLevel = 1
    /\ sess = <<>>
    /\ isRecording = FALSE
    /\ detectedRisks = 0
    /\ recorders = <<>>
    /\ mediaRecorderRef = 0
    /\ recordedChunksRef = <<>>
    /\ recordingStartTimeRef = 0
    /\ now = 0
    /\ recordedVideos = <<>>
    /\ capturedImages = <<>>
    /\ toast = NoToast
    /\ vp9 = "unknown"
    /\ viewerOpen = FALSE
    /\ selectedMedia = NoMedia
    /\ mediaType = "image"
    /\ clearTimers = 0
    /\ zoom = 1
    /\ isPlaying = FALSE
    /\ cameras = <<>>

\* first render of <LiveStream streamUrl={u} />; its effect is scheduled
Mount(u) ==
    /\ ~mounted
    /\ sess = <<>>
    /\ mounted' = TRUE
    /\ streamUrl' = u
    /\ phase' = "effect"
    /\ zoomLevel' = 1
    /\ UNCHANGED <<connectionStatus, errorMessage, pcs, pcRef, srcObject, streamRef,
                   videoWidth, sess>>
    /\ UNCHANGED appVars
    /\ UNCHANGED <<viewerVars, cameras>>

\* the cleanup returned by the effect (lines 633-641): isMounted = false,
\* close pcRef.current, detach the video source. videoRef.current is taken to
\* be the <video> element whenever the cleanup runs (the guard of line 638 holds).
CleanupSess(ss) ==
    [s \in DOMAIN ss |-> [ss[s] EXCEPT !.isMounted = FALSE]]

CleanupPcs(ps, ref) == ClosePcRef(ps, ref)

CleanupSrcObject_keep(src) == src

CleanupSrcObject(src) == 0

Cleanup ==
    /\ sess' = CleanupSess(sess)
    /\ pcs' = CleanupPcs(pcs, pcRef)
    /\ srcObject' = CleanupSrcObject(srcObject)
    /\ videoWidth' = 0

\* streamUrl prop changes: React runs the previous effect's cleanup, then
\* (next task of the same flush) the new effect
ChangeUrl(u) ==
    /\ mounted
    /\ phase = "idle"
    /\ u # streamUrl
    /\ Len(sess) < MaxSessions
    /\ Cleanup
    /\ streamUrl' = u
    /\ phase' = "effect"
    /\ UNCHANGED <<mounted, connectionStatus, errorMessage, pcRef, streamRef>>
    /\ UNCHANGED zoomLevel
    /\ UNCHANGED appVars
    /\ UNCHANGED <<viewerVars, cameras>>

Unmount ==
    /\ mounted
    /\ phase = "idle"
    /\ Cleanup
    /\ mounted' = FALSE
    /\ UNCHANGED <<streamUrl, phase, connectionStatus, errorMessage, pcRef, streamRef>>
    /\ UNCHANGED zoomLevel
    /\ UNCHANGED appVars
    /\ UNCHANGED <<viewerVars, cameras>>

\* the effect body: startStream() up to its first await (lines 570-600)
startStream ==
    /\ phase = "effect"
    /\ phase' = "idle"
    /\ IF streamUrl = ""
       THEN /\ sess' = Append(sess, [url |-> streamUrl, isMounted |-> TRUE, pc |-> 0,
                                     step |-> "returned", posts |-> 0,
                                     answer |-> "none"])
            /\ UNCHANGED <<connectionStatus, errorMessage, pcs, pcRef>>
       ELSE /\ connectionStatus' = "connecting"
            /\ errorMessage' = NoError
            /\ pcs' = Append(ClosePcRef(pcs, pcRef),
                             addTransceiver(NewPc("main", Len(sess) + 1)))
            /\ pcRef' = Len(pcs) + 1
            /\ sess' = Append(sess, [url |-> streamUrl, isMounted |-> TRUE,
                                     pc |-> Len(pcs) + 1,
                                     step |-> "offer", posts |-> 0,
                                     answer |-> "none"])
    /\ UNCHANGED <<mounted, streamUrl, srcObject, streamRef, videoWidth>>
    /\ UNCHANGED zoomLevel
    /\ UNCHANGED appVars
    /\ UNCHANGED <<viewerVars, cameras>>

\* a catch that reports the failure without looking at isMounted
CatchStatus_unguarded(s, st) == "error"

\* catch (err) { ...; if (isMounted) { setConnectionStatus('error'); setErrorMessage(..) } }
CatchStatus(s, st) == IF sess[s].isMounted THEN "error" ELSE st

CatchMessage_none(s, msg) == msg

CatchMessage(s, msg) == IF sess[s].isMounted THEN ErrorText ELSE msg

\* a catch that tries the POST again
Catch_retry(s) ==
    /\ sess' = [sess EXCEPT ![s].step = "fetch", ![s].posts = @ + 1]
    /\ UNCHANGED <<connectionStatus, errorMessage>>

Catch(s) ==
    /\ sess' = [sess EXCEPT ![s].step = "caught"]
    /\ connectionStatus' = CatchStatus(s, connectionStatus)
    /\ errorMessage' = CatchMessage(s, errorMessage)

\* await pc.createOffer() settles; a closed connection rejects (InvalidStateError)
createOfferSettled(s) ==
    /\ phase = "idle"
    /\ sess[s].step = "offer"
    /\ IF pcs[sess[s].pc].closed
       THEN Catch(s)
       ELSE /\ sess' = [sess EXCEPT ![s].step = "local"]
            /\ UNCHANGED <<connectionStatus, errorMessage>>
    /\ UNCHANGED <<mounted, streamUrl, phase, pcs, pcRef, srcObject, streamRef, videoWidth>>
    /\ UNCHANGED zoomLevel
    /\ UNCHANGED appVars
    /\ UNCHANGED <<viewerVars, cameras>>

\* a negotiation that goes on without sending the offer
FetchPosts_none(n) == n

\* the POSTs issued by fetch(streamUrl, {method: 'POST', ...}) at line 604
FetchPosts(n) == n + 1

\* await pc.setLocalDescription(offer) settles; on success fetch() is called
setLocalDescriptionSettled(s) ==
    /\ phase = "idle"
    /\ sess[s].step = "local"
    /\ IF pcs[sess[s].pc].closed
       THEN Catch(s)
       ELSE /\ sess' = [sess EXCEPT ![s].step = "fetch", ![s].posts = FetchPosts(@)]
            /\ UNCHANGED <<connectionStatus, errorMessage>>
    /\ UNCHANGED <<mounted, streamUrl, phase, pcs, pcRef, srcObject, streamRef, videoWidth>>
    /\ UNCHANGED zoomLevel
    /\ UNCHANGED appVars
    /\ UNCHANGED <<viewerVars, cameras>>

\* await fetch(...) settles: r = "ok" (2xx), "bad" (non-2xx), "reject" (network)
fetchSettled(s, r) ==
    /\ phase = "idle"
    /\ sess[s].step = "fetch"
    /\ IF r = "ok"
       THEN /\ sess' = [sess EXCEPT ![s].step = "text"]
            /\ UNCHANGED <<connectionStatus, errorMessage>>
       ELSE Catch(s)
    /\ UNCHANGED <<mounted, streamUrl, phase, pcs, pcRef, srcObject, streamRef, videoWidth>>
    /\ UNCHANGED zoomLevel
    /\ UNCHANGED appVars
    /\ UNCHANGED <<viewerVars, cameras>>

\* await response.text() resolves with the answer SDP (a = "valid" | "malformed"),
\* then lines 615-620: new RTCPeerConnection() is constructed (and never closed),
\* createSessionDescription is called on it (the WebRTC API has no such method:
\* the call throws TypeError unless the runtime defines one, csd), and
\* pc.setRemoteDescription is called on the connection that made the offer
textResolved(s, a, csd) ==
    /\ phase = "idle"
    /\ sess[s].step = "text"
    /\ pcs' = Append(pcs, NewPc("temp", s))
    /\ IF csd
       THEN /\ sess' = [sess EXCEPT ![s].step = "remote", ![s].answer = a]
            /\ UNCHANGED <<connectionStatus, errorMessage>>
       ELSE /\ sess' = [sess EXCEPT ![s].step = "caught", ![s].answer = a]
            /\ connectionStatus' = CatchStatus(s, connectionStatus)
            /\ errorMessage' = CatchMessage(s, errorMessage)
    /\ UNCHANGED <<mounted, streamUrl, phase, pcRef, srcObject, streamRef, videoWidth>>
    /\ UNCHANGED zoomLevel
    /\ UNCHANGED appVars
    /\ UNCHANGED <<viewerVars, cameras>>

\* await pc.setRemoteDescription(...) settles: rejected on a closed connection
\* or a malformed answer, otherwise the answer is applied
setRemoteDescriptionSettled(s) ==
    /\ phase = "idle"
    /\ sess[s].step = "remote"
    /\ IF pcs[sess[s].pc].closed \/ sess[s].answer = "malformed"
       THEN /\ Catch(s)
            /\ UNCHANGED pcs
       ELSE /\ sess' = [sess EXCEPT ![s].step = "done"]
            /\ pcs' = [pcs EXCEPT ![sess[s].pc].remote = TRUE]
            /\ UNCHANGED <<connectionStatus, errorMessage>>
    /\ UNCHANGED <<mounted, streamUrl, phase, pcRef, srcObject, streamRef, videoWidth>>
    /\ UNCHANGED zoomLevel
    /\ UNCHANGED appVars
    /\ UNCHANGED <<viewerVars, cameras>>

\* an ontrack that reports Connected for a track without a stream
ontrackStatus_anyTrack(s, hasStream, st) ==
    IF sess[s].isMounted THEN "connected" ELSE st

\* pc.ontrack (lines 588-594): fired by an open connection whose remote
\* description is applied; hasStream says whether event.streams[0] exists.
\* The stream of connection p is identified by p.
ontrackStreamRef(s, hasStream, cur) == IF hasStream THEN sess[s].pc ELSE cur

ontrackStatus(s, hasStream, st) ==
    IF hasStream /\ sess[s].isMounted THEN "connected" ELSE st

ontrack(s, hasStream) ==
    /\ phase = "idle"
    /\ sess[s].pc # 0
    /\ pcs[sess[s].pc].remote
    /\ ~pcs[sess[s].pc].closed
    /\ ~pcs[sess[s].pc].tracked
    /\ mounted                      \* videoRef.current is the mounted <video>
    /\ pcs' = [pcs EXCEPT ![sess[s].pc].tracked = TRUE]
    /\ srcObject' = IF hasStream THEN sess[s].pc ELSE srcObject
    /\ streamRef' = ontrackStreamRef(s, hasStream, streamRef)
    /\ connectionStatus' = ontrackStatus(s, hasStream, connectionStatus)
    /\ UNCHANGED <<mounted, streamUrl, phase, errorMessage, pcRef, videoWidth, sess>>
    /\ UNCHANGED zoomLevel
    /\ UNCHANGED appVars
    /\ UNCHANGED <<viewerVars, cameras>>

\* the <video> decodes a frame of its source: intrinsic dimensions become known
FrameDecoded ==
    /\ phase = "idle"
    /\ srcObject # 0
    /\ videoWidth = 0
    /\ videoWidth' = 2
    /\ UNCHANGED <<mounted, streamUrl, phase, connectionStatus, errorMessage, pcs, pcRef,
                   srcObject, streamRef, sess>>
    /\ UNCHANGED zoomLevel
    /\ UNCHANGED appVars
    /\ UNCHANGED <<viewerVars, cameras>>

\* toggleZoom (line 645); its button is disabled unless connected (line 765)
toggleZoom ==
    /\ mounted
    /\ phase = "idle"
    /\ connectionStatus = "connected"
    /\ zoomLevel' = (IF zoomLevel = 1 THEN 2 ELSE 1)
    /\ UNCHANGED <<mounted, streamUrl, phase, connectionStatus, errorMessage, pcs, pcRef,
                   srcObject, streamRef, videoWidth, sess>>
    /\ UNCHANGED appVars
    /\ UNCHANGED <<viewerVars, cameras>>

\* resetToOriginal (line 646); its button is rendered while zoomLevel > 1 (line 770)
resetToOriginal ==
    /\ mounted
    /\ phase = "idle"
    /\ zoomLevel > 1
    /\ zoomLevel' = 1
    /\ UNCHANGED <<mounted, streamUrl, phase, connectionStatus, errorMessage, pcs, pcRef,
                   srcObject, streamRef, videoWidth, sess>>
    /\ UNCHANGED appVars
    /\ UNCHANGED <<viewerVars, cameras>>

\* an overlay that offers the retry whenever the stream is not connected
RetryActions_notConnected ==
    IF mounted /\ connectionStatus # "connected" THEN 1 ELSE 0

\* the number of retry buttons the loading / error overlay renders (lines 656-677)
RetryActions ==
    IF ~mounted \/ connectionStatus = "connected" THEN 0
    ELSE IF connectionStatus = "connecting" THEN 0
    ELSE 1

\* "Retry Connection" (line 670): window.location.reload() discards the page
RetryShown == RetryActions > 0

Retry ==
    /\ phase = "idle"
    /\ RetryShown
    /\ mounted' = FALSE
    /\ streamUrl' = ""
    /\ phase' = "idle"
    /\ connectionStatus' = "connecting"
    /\ errorMessage' = NoError
    /\ pcs' = <<>>
    /\ pcRef' = 0
    /\ srcObject' = 0
    /\ streamRef' = 0
    /\ videoWidth' = 0
    /\ zoomLevel' = 1
    /\ sess' = <<>>
    /\ isRecording' = FALSE
    /\ detectedRisks' = 0
    /\ recorders' = <<>>
    /\ mediaRecorderRef' = 0
    /\ recordedChunksRef' = <<>>
    /\ recordingStartTimeRef' = 0
    /\ now' = now
    /\ recordedVideos' = <<>>
    /\ capturedImages' = <<>>
    /\ toast' = NoToast
    /\ vp9' = vp9
    /\ viewerOpen' = FALSE
    /\ selectedMedia' = NoMedia
    /\ mediaType' = "image"
    /\ clearTimers' = 0
    /\ zoom' = 1
    /\ isPlaying' = FALSE
    /\ cameras' = <<>>

\* ----------------------------------------------------------------------- App
\* videoRef.current.videoHeight: decoded frames are 2 x 1
videoHeight == IF videoWidth = 0 THEN 0 ELSE 1

\* a canvas sized like the zoomed rendering of the video
canvasSize_zoomed == <<videoWidth * zoomLevel, videoHeight * zoomLevel>>

\* canvas.width = video.videoWidth; canvas.height = video.videoHeight (lines 554-555)
canvasSize == <<videoWidth, videoHeight>>

\* a captureFrame without the videoWidth test of line 546
captureFrame_noWidth(ctx) ==
    IF ~mounted THEN ""
    ELSE IF ~ctx THEN ""
    ELSE "data:image/jpeg"

\* captureFrame (lines 544-562): null ("") without a mounted <video> with
\* intrinsic dimensions or without a 2D context, else the encoded frame.
\* liveStreamRef.current is null while LiveStream is not mounted.
captureFrame(ctx) ==
    IF ~mounted \/ videoWidth = 0 THEN ""
    ELSE IF ~ctx THEN ""
    ELSE "data:image/jpeg"

\* liveStreamRef.current?.getStream()
HostStream == IF mounted THEN getStream ELSE 0

\* new MediaRecorder(stream, ...) with its two handlers; risks is the
\* detectedRisks the handlers close over. History, not program state, kept
\* until the stop task has run: stopRisks is the detectedRisks rendered when
\* stop() was called, startedAt the Date.now() of line 225 for this recorder,
\* stoppedAt the Date.now() when stop() was called, kept the number of
\* non-empty chunks the recorder has delivered.
NewRecorder(stream, risks) ==
    [state |-> "inactive", stream |-> stream, risks |-> risks, pending |-> "none",
     emitted |-> 0, stopRisks |-> NoRisks, startedAt |-> now, stoppedAt |-> 0,
     kept |-> 0]

\* MediaRecorder.stop(): the recorder becomes inactive at once and queues the
\* task that fires the final dataavailable and then stop
StopRecorder(rs, r) ==
    [rs EXCEPT ![r].state = "inactive", ![r].pending = "stop",
               ![r].stopRisks = detectedRisks, ![r].stoppedAt = now]

ToggleStop_skip(rs, ref) == rs

\* the stop branch (lines 205-209)
ToggleStop(rs, ref) ==
    IF ref # 0 /\ rs[ref].state # "inactive" THEN StopRecorder(rs, ref) ELSE rs

\* the risks array the onstop closure of a recorder created now refers to (line 253)
ClosureRisks == detectedRisks

StartResult_noReset(thr) == TRUE

\* isRecording after the try block: line 203 has set !isRecording (TRUE), the
\* catch (line 278) resets it
StartResult(thr) == thr = "none"

AfterReject_noReset(set) == set

\* isRecording after the no-stream exit: set is the value set at line 203,
\* line 219 overrides it with false
AfterReject(set) == FALSE

\* handleToggleRecording (lines 201-281); thr says what the start branch's
\* try block throws: "none", "ctor" (new MediaRecorder rejects the mimeType:
\* the same browser always does or never does) or "start" (start(1000))
handleToggleRecording(thr) ==
    /\ phase = "idle"
    /\ IF isRecording
       THEN /\ isRecording' = FALSE
            /\ recorders' = ToggleStop(recorders, mediaRecorderRef)
            /\ UNCHANGED <<mediaRecorderRef, recordedChunksRef, recordingStartTimeRef,
                           toast, vp9>>
       ELSE IF HostStream = 0
       THEN /\ toast' = <<"error", "Stream not ready">>
            /\ isRecording' = AfterReject(~isRecording)
            /\ UNCHANGED <<recorders, mediaRecorderRef, recordedChunksRef,
                           recordingStartTimeRef, vp9>>
       ELSE /\ vp9' = (IF thr = "ctor" THEN "no" ELSE "yes")
            /\ vp9 \in {"unknown", vp9'}
            /\ recordedChunksRef' = <<>>
            /\ recordingStartTimeRef' = now
            /\ isRecording' = StartResult(thr)
            /\ IF thr = "ctor"
               THEN /\ UNCHANGED <<recorders, mediaRecorderRef>>
                    /\ toast' = <<"error", "Recording failed">>
               ELSE /\ mediaRecorderRef' = Len(recorders) + 1
                    /\ IF thr = "start"
                       THEN /\ recorders' = Append(recorders,
                                                   NewRecorder(HostStream, ClosureRisks))
                            /\ toast' = <<"error", "Recording failed">>
                       ELSE /\ recorders' = Append(recorders,
                                  [NewRecorder(HostStream, ClosureRisks)
                                      EXCEPT !.state = "recording"])
                            /\ toast' = <<"success", "Recording started">>
    /\ UNCHANGED <<detectedRisks, now, recordedVideos, capturedImages>>
    /\ UNCHANGED lsVars
    /\ UNCHANGED <<viewerVars, cameras>>

\* handleToggleRecording(thr) constructs no recorder beyond the cap-th
RecorderBudget(thr, cap) ==
    (~isRecording /\ HostStream # 0 /\ thr # "ctor") => Len(recorders) < cap

\* an ondataavailable without the size test of line 232
PushChunk_all(chunks, r, nonEmpty) == Append(chunks, <<r, recorders[r].emitted + 1>>)

\* ondataavailable (lines 231-235): a chunk is <<recorder, sequence number>>
PushChunk(chunks, r, nonEmpty) ==
    IF nonEmpty THEN Append(chunks, <<r, recorders[r].emitted + 1>>) ELSE chunks

\* timeslice chunks delivered so far by recorders 1..n
RECURSIVE Emitted(_)
Emitted(n) == IF n = 0 THEN 0 ELSE recorders[n].emitted + Emitted(n - 1)

\* recorder r has fired one more dataavailable
Delivered(rs, r, nonEmpty) ==
    [rs EXCEPT ![r].emitted = @ + 1, ![r].kept = IF nonEmpty THEN @ + 1 ELSE @]

\* a timeslice of start(1000) elapses on a recording recorder
dataavailable(r, nonEmpty) ==
    /\ phase = "idle"
    /\ recorders[r].state = "recording"
    /\ Emitted(Len(recorders)) < MaxChunks
    /\ recordedChunksRef' = PushChunk(recordedChunksRef, r, nonEmpty)
    /\ recorders' = Delivered(recorders, r, nonEmpty)
    /\ UNCHANGED <<isRecording, detectedRisks, mediaRecorderRef, recordingStartTimeRef,
                   now, recordedVideos, capturedImages, toast, vp9>>
    /\ UNCHANGED lsVars
    /\ UNCHANGED <<viewerVars, cameras>>

\* one timeslice of start(1000) elapses on a recording recorder: the clock is
\* Timeslice ms later and the recorder delivers the chunk of that second
timesliceElapsed(r, nonEmpty) ==
    /\ phase = "idle"
    /\ recorders[r].state = "recording"
    /\ now + Timeslice <= MaxSeconds * Timeslice
    /\ now' = now + Timeslice
    /\ recordedChunksRef' = PushChunk(recordedChunksRef, r, nonEmpty)
    /\ recorders' = Delivered(recorders, r, nonEmpty)
    /\ UNCHANGED <<isRecording, detectedRisks, mediaRecorderRef, recordingStartTimeRef,
                   recordedVideos, capturedImages, toast, vp9>>
    /\ UNCHANGED lsVars
    /\ UNCHANGED <<viewerVars, cameras>>

\* a retention that slices one element too many
Retain_keepFive(item, prev) ==
    <<item>> \o SubSeq(prev, 1, IF Len(prev) < KeepRecent + 1 THEN Len(prev)
                                ELSE KeepRecent + 1)

\* [newVideo, ...prev.slice(0, 4)]
Retain(item, prev) ==
    <<item>> \o SubSeq(prev, 1, IF Len(prev) < KeepRecent THEN Len(prev) ELSE KeepRecent)

\* the RecordedVideo built by onstop (lines 238-255) from the chunk buffer
NewVideo(r, chunks, ctx) ==
    [rec |-> r,
     chunks |-> chunks,
     duration |-> (now - recordingStartTimeRef) \div 1000,
     thumbnailUrl |-> captureFrame(ctx),
     risks |-> recorders[r].risks]

\* an onstop that gives up when no thumbnail frame can be captured
stopTask_needsThumbnail(r, nonEmpty, ctx) ==
    /\ phase = "idle"
    /\ recorders[r].pending = "stop"
    /\ recordedChunksRef' = PushChunk(recordedChunksRef, r, nonEmpty)
    /\ recorders' = [recorders EXCEPT ![r].pending = "over", ![r].stopRisks = NoRisks,
                                      ![r].startedAt = 0, ![r].stoppedAt = 0,
                                      ![r].kept = 0]
    /\ recordedVideos' = (IF captureFrame(ctx) = "" THEN recordedVideos
                          ELSE Retain(NewVideo(r, recordedChunksRef', ctx), recordedVideos))
    /\ toast' = <<"success", "Recording stopped">>
    /\ UNCHANGED <<isRecording, detectedRisks, mediaRecorderRef,
                   recordingStartTimeRef, now, capturedImages, vp9>>
    /\ UNCHANGED lsVars
    /\ UNCHANGED <<viewerVars, cameras>>

\* the task queued by stop(): the recorder fires its final dataavailable
\* (ondataavailable, lines 231-235) and then stop (onstop, lines 237-265)
stopTask(r, nonEmpty, ctx) ==
    /\ phase = "idle"
    /\ recorders[r].pending = "stop"
    /\ recordedChunksRef' = PushChunk(recordedChunksRef, r, nonEmpty)
    /\ recorders' = [recorders EXCEPT ![r].pending = "over", ![r].stopRisks = NoRisks,
                                      ![r].startedAt = 0, ![r].stoppedAt = 0,
                                      ![r].kept = 0]
    /\ recordedVideos' = Retain(NewVideo(r, recordedChunksRef', ctx), recordedVideos)
    /\ toast' = <<"success", "Recording stopped">>
    /\ UNCHANGED <<isRecording, detectedRisks, mediaRecorderRef,
                   recordingStartTimeRef, now, capturedImages, vp9>>
    /\ UNCHANGED lsVars
    /\ UNCHANGED <<viewerVars, cameras>>

\* the tracks of the recorded stream end when its peer connection is closed:
\* the recorder stops by itself
sourceEnded(r) ==
    /\ phase = "idle"
    /\ recorders[r].state = "recording"
    /\ pcs[recorders[r].stream].closed
    /\ recorders' = StopRecorder(recorders, r)
    /\ UNCHANGED <<isRecording, detectedRisks, mediaRecorderRef, recordedChunksRef,
                   recordingStartTimeRef, now, recordedVideos, capturedImages, toast, vp9>>
    /\ UNCHANGED lsVars
    /\ UNCHANGED <<viewerVars, cameras>>

\* the 8000 ms interval (lines 167-175) renders a new detectedRisks array
riskUpdate(v) ==
    /\ phase = "idle"
    /\ v # detectedRisks
    /\ detectedRisks' = v
    /\ UNCHANGED <<isRecording, recorders, mediaRecorderRef, recordedChunksRef,
                   recordingStartTimeRef, now, recordedVideos, capturedImages, toast, vp9>>
    /\ UNCHANGED lsVars
    /\ UNCHANGED <<viewerVars, cameras>>

\* the serial number of the next CapturedImage (its identity in the model;
\* the code's id is `capture-${Date.now()}`)
NextCapture == IF capturedImages = <<>> THEN 1 ELSE capturedImages[1].n + 1

\* the CapturedImage of lines 294-299; size is the raster of the encoded image
NewCapture(imageUrl) ==
    [n |-> NextCapture, imageUrl |-> imageUrl, size |-> canvasSize, risks |-> detectedRisks]

CaptureRejected_never(imageUrl) == FALSE

\* if (!imageUrl) (line 288)
CaptureRejected(imageUrl) == imageUrl = ""

\* handleCapture (lines 283-310)
handleCapture(ctx) ==
    /\ phase = "idle"
    /\ IF CaptureRejected(captureFrame(ctx))
       THEN /\ toast' = <<"error", "Capture failed">>
            /\ UNCHANGED capturedImages
       ELSE /\ NextCapture <= MaxArtifacts
            /\ capturedImages' = Retain(NewCapture(captureFrame(ctx)), capturedImages)
            /\ toast' = <<"success", "Screenshot captured">>
    /\ UNCHANGED <<isRecording, detectedRisks, recorders, mediaRecorderRef,
                   recordedChunksRef, recordingStartTimeRef, now, recordedVideos, vp9>>
    /\ UNCHANGED lsVars
    /\ UNCHANGED <<viewerVars, cameras>>

\* the rectangles (percentages of the viewport) of the detectedRisks array v
RiskBoxes(v) ==
    IF v = 0 THEN {}
    ELSE {[x |-> 10, y |-> 20, width |-> 10, height |-> 20],
          [x |-> 60, y |-> 50, width |-> 20, height |-> 10]}

\* the viewport of the video area in pixels: <<W, H>>
Viewport == <<160, 90>>

\* the rectangle LiveStream renders for a risk (lines 698-718): percentages of
\* the viewport, animated to scale 1; zoomLevel scales the <video> only (line 682)
RenderedBox(risk) ==
    [left |-> (risk.x * Viewport[1]) \div 100,
     top |-> (risk.y * Viewport[2]) \div 100,
     width |-> (risk.width * Viewport[1]) \div 100,
     height |-> (risk.height * Viewport[2]) \div 100]

\* the boxes on screen: rendered only while connected (line 699)
RenderedBoxes ==
    IF mounted /\ connectionStatus = "connected"
    THEN {RenderedBox(risk) : risk \in RiskBoxes(detectedRisks)}
    ELSE {}

\* wall-clock time passes
Tick(d) ==
    /\ now + d <= MaxTicks * d
    /\ now' = now + d
    /\ UNCHANGED <<isRecording, detectedRisks, recorders, mediaRecorderRef,
                   recordedChunksRef, recordingStartTimeRef, recordedVideos,
                   capturedImages, toast, vp9>>
    /\ UNCHANGED lsVars
    /\ UNCHANGED <<viewerVars, cameras>>

\* the LiveStream child of the App: its streamUrl is the constant WHEP_URL
AppLiveStream ==
    \/ Mount(WHEP_URL)
    \/ Unmount
    \/ startStream
    \/ \E s \in DOMAIN sess : createOfferSettled(s)
    \/ \E s \in DOMAIN sess : setLocalDescriptionSettled(s)
    \/ \E s \in DOMAIN sess, r \in {"ok", "bad", "reject"} : fetchSettled(s, r)
    \/ \E s \in DOMAIN sess, a \in {"valid", "malformed"}, csd \in BOOLEAN :
          textResolved(s, a, csd)
    \/ \E s \in DOMAIN sess : setRemoteDescriptionSettled(s)
    \/ \E s \in DOMAIN sess, h \in BOOLEAN : ontrack(s, h)
    \/ FrameDecoded
    \/ Retry

\* the recording handlers of the App and the events of its recorders
AppRecording ==
    \/ \E thr \in {"none", "ctor", "start"} :
          RecorderBudget(thr, MaxRecorders) /\ handleToggleRecording(thr)
    \/ \E r \in DOMAIN recorders, ne \in BOOLEAN : dataavailable(r, ne)
    \/ \E r \in DOMAIN recorders, ne \in BOOLEAN, ctx \in BOOLEAN : stopTask(r, ne, ctx)
    \/ \E r \in DOMAIN recorders : sourceEnded(r)

\* The App under changing detections, with the clock at rest. No handler
\* branches on detectedRisks or on Date.now(), and each is written by one
\* action only, so the two are explored in separate specifications.
AppNext ==
    \/ AppLiveStream
    \/ AppRecording
    \/ \E v \in RiskSets : riskUpdate(v)

AppSpec == Init /\ [][AppNext]_vars

\* The App under a running clock, with the detections at rest.
ClockNext ==
    \/ AppLiveStream
    \/ AppRecording
    \/ \E d \in TickSteps : Tick(d)

ClockSpec == Init /\ [][ClockNext]_vars

\* The App's view of the stream: zoom, changing detections and snapshots,
\* with no recording.
ViewNext ==
    \/ AppLiveStream
    \/ toggleZoom
    \/ resetToOriginal
    \/ \E v \in RiskSets : riskUpdate(v)
    \/ \E ctx \in BOOLEAN : handleCapture(ctx)

ViewSpec == Init /\ [][ViewNext]_vars

\* the page mounts the App and React runs the effect of a commit: neither is
\* postponed forever
ViewFair ==
    /\ ViewSpec
    /\ WF_vars(Mount(WHEP_URL))
    /\ WF_vars(startStream)

\* the LiveStream child of the App when the gateway answers and the runtime
\* accepts the answer: every negotiation step succeeds
StreamUp ==
    \/ Mount(WHEP_URL)
    \/ Unmount
    \/ startStream
    \/ \E s \in DOMAIN sess : createOfferSettled(s)
    \/ \E s \in DOMAIN sess : setLocalDescriptionSettled(s)
    \/ \E s \in DOMAIN sess : fetchSettled(s, "ok")
    \/ \E s \in DOMAIN sess : textResolved(s, "valid", TRUE)
    \/ \E s \in DOMAIN sess : setRemoteDescriptionSettled(s)
    \/ \E s \in DOMAIN sess : ontrack(s, TRUE)
    \/ FrameDecoded

\* no stop task of a recorder is waiting to run
NoStopPending == \A r \in DOMAIN recorders : recorders[r].pending # "stop"

\* The artifact lists of the App: snapshots and recordings, up to
\* MaxArtifacts of each kind, by a user who clicks Record again only after the
\* stop task of the previous recording has run.
GalleryNext ==
    \/ StreamUp
    \/ /\ RecorderBudget("none", MaxArtifacts)
       /\ NoStopPending
       /\ handleToggleRecording("none")
    \/ \E r \in DOMAIN recorders, ne \in BOOLEAN, ctx \in BOOLEAN : stopTask(r, ne, ctx)
    \/ \E ctx \in BOOLEAN : handleCapture(ctx)

GallerySpec == Init /\ [][GalleryNext]_vars

\* The recording pipeline of the App over a stream that comes up, clicks at
\* any time.
RecordingNext ==
    \/ StreamUp
    \/ AppRecording

RecordingSpec == Init /\ [][RecordingNext]_vars

\* the event loop runs every queued task: the stop task of a recorder is not
\* postponed forever
RecordingFair ==
    /\ RecordingSpec
    /\ \A r \in 1..MaxRecorders :
           WF_vars(\E ne \in BOOLEAN, ctx \in BOOLEAN :
                      r \in DOMAIN recorders /\ stopTask(r, ne, ctx))

\* The recording pipeline with its timeslice timer, one recording at a time:
\* Record is clicked again only after the stop task of the previous recording
\* has run.
TimesliceNext ==
    \/ StreamUp
    \/ \E thr \in {"none", "ctor", "start"} :
          /\ RecorderBudget(thr, MaxRecorders)
          /\ isRecording \/ NoStopPending
          /\ handleToggleRecording(thr)
    \/ \E r \in DOMAIN recorders, ne \in BOOLEAN : timesliceElapsed(r, ne)
    \/ \E r \in DOMAIN recorders, ne \in BOOLEAN, ctx \in BOOLEAN : stopTask(r, ne, ctx)
    \/ \E r \in DOMAIN recorders : sourceEnded(r)

TimesliceSpec == Init /\ [][TimesliceNext]_vars

\* the Record / Stop button of LiveStream (part_001 lines 789-798):
\* disabled={connectionStatus !== 'connected'}
RecordEnabled == mounted /\ connectionStatus = "connected"

\* a click on the button: onToggleRecording of the host
recordClick(thr) ==
    /\ RecordEnabled
    /\ handleToggleRecording(thr)

\* LiveStream under a host that records through the button and may change
\* the streamUrl it passes; every negotiation step succeeds unless the
\* gateway refuses the offer
HostNext ==
    \/ StreamUp
    \/ \E u \in Urls : ChangeUrl(u)
    \/ \E s \in DOMAIN sess : fetchSettled(s, "bad")
    \/ \E thr \in {"none", "ctor", "start"} :
          RecorderBudget(thr, MaxRecorders) /\ recordClick(thr)
    \/ \E r \in DOMAIN recorders, ne \in BOOLEAN, ctx \in BOOLEAN : stopTask(r, ne, ctx)

HostSpec == Init /\ [][HostNext]_vars

\* --------------------------------------------------------------- media viewer
otherThanViewer == <<lsVars, appVars, cameras>>

\* MediaViewer renders its Dialog only with a media (`if (!media) return null`)
DialogRendered == viewerOpen /\ selectedMedia # NoMedia

\* handleImageClick (part_000 lines 320-324)
handleImageClick(image) ==
    /\ selectedMedia' = <<"image", image>>
    /\ mediaType' = "image"
    /\ viewerOpen' = TRUE
    /\ UNCHANGED <<clearTimers, zoom, isPlaying>>
    /\ UNCHANGED otherThanViewer

\* handleVideoClick (part_000 lines 326-330)
handleVideoClick(video) ==
    /\ selectedMedia' = <<"video", video>>
    /\ mediaType' = "video"
    /\ viewerOpen' = TRUE
    /\ UNCHANGED <<clearTimers, zoom, isPlaying>>
    /\ UNCHANGED otherThanViewer

\* handleViewerClose (part_000 lines 332-337), the Dialog's onOpenChange:
\* setViewerOpen(false) and a 300 ms timeout; the MediaViewer effect on
\* isOpen (part_001 lines 71-77) resets its playback and zoom
handleViewerClose ==
    /\ DialogRendered
    /\ clearTimers < MaxTimers
    /\ viewerOpen' = FALSE
    /\ clearTimers' = clearTimers + 1
    /\ zoom' = 1
    /\ isPlaying' = FALSE
    /\ UNCHANGED <<selectedMedia, mediaType>>
    /\ UNCHANGED otherThanViewer

\* the timeout callback of line 334 runs: setSelectedMedia(null)
clearSelection ==
    /\ clearTimers > 0
    /\ clearTimers' = clearTimers - 1
    /\ selectedMedia' = NoMedia
    /\ UNCHANGED <<viewerOpen, mediaType, zoom, isPlaying>>
    /\ UNCHANGED otherThanViewer

\* MediaViewer toggleZoom (part_001 lines 121-123), button of an image
viewerToggleZoom ==
    /\ DialogRendered
    /\ mediaType = "image"
    /\ zoom' = (IF zoom = 1 THEN 2 ELSE 1)
    /\ UNCHANGED <<viewerOpen, selectedMedia, mediaType, clearTimers, isPlaying>>
    /\ UNCHANGED otherThanViewer

\* MediaViewer togglePlay (part_001 lines 79-88), button of a video
togglePlay ==
    /\ DialogRendered
    /\ mediaType = "video"
    /\ isPlaying' = ~isPlaying
    /\ UNCHANGED <<viewerOpen, selectedMedia, mediaType, clearTimers, zoom>>
    /\ UNCHANGED otherThanViewer

\* the gallery and the media viewer of the App
ViewerNext ==
    \/ \E image \in Images : handleImageClick(image)
    \/ \E video \in Videos : handleVideoClick(video)
    \/ handleViewerClose
    \/ clearSelection
    \/ viewerToggleZoom
    \/ togglePlay

ViewerSpec == Init /\ [][ViewerNext]_vars

\* ---------------------------------------------------------------- CameraFeed
otherThanCameras == <<lsVars, appVars, viewerVars>>

\* a CameraFeed instance after its first render: the effect has called
\* getUserMedia, which is pending (part_001 lines 969-980)
NewCamera ==
    [mounted |-> TRUE, request |-> "pending", live |-> FALSE, streamRef |-> FALSE,
     srcObject |-> FALSE, cameraError |-> FALSE, zoomLevel |-> 1]

\* the page mounts a CameraFeed; one is mounted at a time
cameraMount ==
    /\ Len(cameras) < MaxCameras
    /\ \A c \in DOMAIN cameras : ~cameras[c].mounted
    /\ cameras' = Append(cameras, NewCamera)
    /\ UNCHANGED otherThanCameras

\* await getUserMedia(...) settles (lines 972-990). Granted: the stream has
\* a live video track; it is stored at lines 981-984 only when
\* videoRef.current is the mounted <video>. Denied: the catch sets
\* cameraError. State setters of an unmounted instance have no effect.
getUserMediaSettled(c, granted) ==
    /\ cameras[c].request = "pending"
    /\ cameras' =
          [cameras EXCEPT ![c] =
              IF granted
              THEN [@ EXCEPT !.request = "resolved", !.live = TRUE,
                             !.srcObject = cameras[c].mounted,
                             !.streamRef = cameras[c].mounted,
                             !.cameraError = FALSE]
              ELSE [@ EXCEPT !.request = "rejected",
                             !.cameraError = cameras[c].mounted]]
    /\ UNCHANGED otherThanCameras

\* the effect cleanup (lines 995-999): the tracks of streamRef.current are
\* stopped, when there is one
CleanupLive(cam) == IF cam.streamRef THEN FALSE ELSE cam.live

\* the CameraFeed is unmounted: its cleanup runs, its state is discarded
cameraUnmount(c) ==
    /\ cameras[c].mounted
    /\ cameras' = [cameras EXCEPT ![c].mounted = FALSE,
                                  ![c].live = CleanupLive(cameras[c]),
                                  ![c].srcObject = FALSE,
                                  ![c].zoomLevel = 1]
    /\ UNCHANGED otherThanCameras

\* CameraFeed toggleZoom (lines 1003-1005)
cameraToggleZoom(c) ==
    /\ cameras[c].mounted
    /\ cameras' = [cameras EXCEPT ![c].zoomLevel = IF @ = 1 THEN 2 ELSE 1]
    /\ UNCHANGED otherThanCameras

\* the local-camera variant of the feed
CameraNext ==
    \/ cameraMount
    \/ \E c \in DOMAIN cameras, granted \in BOOLEAN : getUserMediaSettled(c, granted)
    \/ \E c \in DOMAIN cameras : cameraUnmount(c)
    \/ \E c \in DOMAIN cameras : cameraToggleZoom(c)

CameraSpec == Init /\ [][CameraNext]_vars

\* the LiveStream component under every streamUrl its parent may pass
LsNext ==
    \/ \E u \in Urls : Mount(u)
    \/ \E u \in Urls : ChangeUrl(u)
    \/ Unmount
    \/ startStream
    \/ \E s \in DOMAIN sess : createOfferSettled(s)
    \/ \E s \in DOMAIN sess : setLocalDescriptionSettled(s)
    \/ \E s \in DOMAIN sess, r \in {"ok", "bad", "reject"} : fetchSettled(s, r)
    \/ \E s \in DOMAIN sess, a \in {"valid", "malformed"}, csd \in BOOLEAN :
          textResolved(s, a, csd)
    \/ \E s \in DOMAIN sess : setRemoteDescriptionSettled(s)
    \/ \E s \in DOMAIN sess, h \in BOOLEAN : ontrack(s, h)
    \/ FrameDecoded
    \/ Retry

Next == LsNext

Spec == Init /\ [][Next]_vars

\* ==================================================================== claims
\* the session of the effect that is in force: the last one started, while
\* the component is mounted and no effect is waiting to run
Current == Len(sess)

HasCurrent == mounted /\ phase = "idle" /\ sess # <<>>

ActiveRecorders == {r \in DOMAIN recorders : recorders[r].state # "inactive"}

\* getStream() as the host sees it returns null
NoHostStream == ~mounted \/ streamRef = 0

\* C1: at most one RTCPeerConnection constructed by the instance is open
\* (constructed and not closed) at any instant.
C1_AtMostOneOpenPc == Cardinality(OpenPcs) <= 1

C3_GetStreamFollowsSession ==
    HasCurrent =>
        getStream = IF connectionStatus = "connected" THEN sess[Current].pc ELSE 0

\* C4: the risks attached to the artifact of a stopped recording are the
\* detectedRisks active at the stop instant (when stop() was called, or when
\* the stop task builds the artifact), not those of the start.
C4_RisksOfStopInstant ==
    [][ \A r \in DOMAIN recorders :
            (r \in DOMAIN recorders' /\ recorders[r].pending = "stop"
                                     /\ recorders'[r].pending = "over")
            => recordedVideos'[1].risks \in {recorders[r].stopRisks, detectedRisks}
      ]_vars

\* C5: at most one MediaRecorder is in a non-inactive state at any instant,
\* and no recorder is constructed while one is active.
C5_OneActiveRecorder ==
    /\ [](Cardinality(ActiveRecorders) <= 1)
    /\ [][ ActiveRecorders # {} => Len(recorders') <= Len(recorders) ]_vars

\* a second recorder is recording after the first one was stopped
C5_Witness ==
    /\ Len(recorders) = 2
    /\ recorders[1].pending \in {"stop", "over"}
    /\ recorders[2].state = "recording"

\* C6: toggle-recording invoked from Idle while getStream() returns null
\* reports the failure, ends with isRecording false, constructs no recorder,
\* leaves the chunk buffer and the start timestamp alone and adds no artifact.
C6_StartWithoutStream ==
    [][ ((\E thr \in {"none", "ctor", "start"} : handleToggleRecording(thr))
            /\ ~isRecording /\ NoHostStream)
        => /\ toast' = <<"error", "Stream not ready">>
           /\ isRecording' = FALSE
           /\ UNCHANGED <<recorders, mediaRecorderRef, recordedChunksRef,
                          recordingStartTimeRef, recordedVideos>>
      ]_vars

\* the failure was reported after an earlier recording had filled the buffer
C6_Witness ==
    /\ toast = <<"error", "Stream not ready">>
    /\ ~isRecording
    /\ NoHostStream
    /\ recordedChunksRef # <<>>
    /\ recordedVideos # <<>>

\* C7: when constructing or starting the MediaRecorder throws, the failure is
\* reported, isRecording is reset to false, no artifact is added, and no
\* artifact is ever produced by a recorder that did not record.
C7_RecorderFailure ==
    /\ [](\A i \in DOMAIN recordedVideos :
              recorders[recordedVideos[i].rec].pending = "over")
    /\ [][ ((\E thr \in {"ctor", "start"} : handleToggleRecording(thr))
               /\ ~isRecording /\ ~NoHostStream)
           => /\ toast' = <<"error", "Recording failed">>
              /\ isRecording' = FALSE
              /\ recordedVideos' = recordedVideos
              /\ \A r \in DOMAIN recorders' \ DOMAIN recorders :
                     /\ recorders'[r].state = "inactive"
                     /\ recorders'[r].pending = "none"
         ]_vars

\* start(1000) threw on a constructed recorder; the failure is on display
C7_Witness ==
    /\ toast = <<"error", "Recording failed">>
    /\ ~isRecording
    /\ recorders # <<>>
    /\ recorders[Len(recorders)].pending = "none"
    /\ recorders[Len(recorders)].state = "inactive"
    /\ mediaRecorderRef = Len(recorders)

\* C8: every failure of the mounted session's negotiation moves the session
\* from Connecting to Failed with a non-empty reason.
C8_FailureReachesFailed ==
    [][ \A s \in DOMAIN sess :
            (s \in DOMAIN sess' /\ sess[s].isMounted
               /\ sess[s].step # "caught" /\ sess'[s].step = "caught")
            => /\ connectionStatus = "connecting"
               /\ connectionStatus' = "error"
               /\ errorMessage' \notin {NoError, ""}
      ]_vars

\* the mounted session failed after its POST
C8_Witness ==
    \E s \in DOMAIN sess :
        /\ sess[s].isMounted
        /\ sess[s].step = "caught"
        /\ sess[s].posts = 1
        /\ connectionStatus = "error"
        /\ errorMessage = ErrorText

\* C9: a negotiation sends at most one POST, and a session that has failed
\* never sends another one nor leaves Failed.
C9_OnePostNoAutoRetry ==
    /\ [](\A s \in DOMAIN sess : sess[s].posts <= 1)
    /\ [][ \A s \in DOMAIN sess :
               (s \in DOMAIN sess' /\ sess[s].step = "caught")
               => /\ sess'[s].posts = sess[s].posts
                  /\ sess'[s].step = "caught"
         ]_vars

\* the mounted session is Failed with its single POST sent, and stays the
\* current one
C9_Witness ==
    /\ HasCurrent
    /\ sess[Current].isMounted
    /\ sess[Current].step = "caught"
    /\ sess[Current].posts = 1
    /\ sess[Current].answer = "none"
    /\ connectionStatus = "error"

\* C10: a mounted session whose POST was answered 2xx with a valid answer
\* does not end in Failed.
C10_ValidAnswerNeverFails ==
    \A s \in DOMAIN sess :
        (sess[s].isMounted /\ sess[s].answer = "valid") => sess[s].step # "caught"

\* C11: captureFrame() returns null whenever no frame is available (no video
\* element, intrinsic width 0, source not attached or detached) and a
\* non-empty encoded image whenever the video has intrinsic dimensions and a
\* 2D context is obtainable; every stored snapshot holds a non-empty image.
C11_CaptureFrameResult ==
    /\ (~mounted \/ videoWidth = 0 \/ srcObject = 0)
          => \A ctx \in BOOLEAN : captureFrame(ctx) = ""
    /\ (mounted /\ videoWidth # 0) => captureFrame(TRUE) # ""
    /\ \A i \in DOMAIN capturedImages : capturedImages[i].imageUrl # ""

\* a frame was captured, then the source was detached and a capture failed
C11_Witness ==
    /\ capturedImages # <<>>
    /\ toast = <<"error", "Capture failed">>
    /\ srcObject = 0
    /\ videoWidth = 0

\* all the state but zoomLevel and detectedRisks is left as it is
OnlyViewChanges ==
    /\ UNCHANGED <<mounted, streamUrl, phase, connectionStatus, errorMessage, pcs, pcRef,
                   srcObject, streamRef, videoWidth, sess>>
    /\ UNCHANGED <<isRecording, recorders, mediaRecorderRef, recordedChunksRef,
                   recordingStartTimeRef, now, recordedVideos, capturedImages, toast, vp9>>

\* C12: two states that differ only in zoomLevel and/or detectedRisks give
\* the same captureFrame() result and the same raster size, and the raster of
\* a stored snapshot is videoWidth x videoHeight.
C12_CaptureIgnoresZoomAndRisks ==
    [][ /\ OnlyViewChanges
           => /\ canvasSize' = canvasSize
              /\ \A ctx \in BOOLEAN : captureFrame(ctx)' = captureFrame(ctx)
        /\ Len(capturedImages') > Len(capturedImages)
           => capturedImages'[1].size = <<videoWidth, videoHeight>>
      ]_vars

\* snapshots were taken under two different detectedRisks, the last one zoomed
C12_Witness ==
    /\ zoomLevel = 2
    /\ videoWidth # 0
    /\ Len(capturedImages) >= 2
    /\ capturedImages[1].risks # capturedImages[2].risks
    /\ toast = <<"success", "Screenshot captured">>

\* C13: the duration of a RecordedVideo is the whole number of seconds of
\* wall-clock time between the start of that same recording and its stop (the
\* stop() call, or the stop task that builds the artifact).
C13_DurationIsElapsedSeconds ==
    [][ \A r \in DOMAIN recorders :
            (r \in DOMAIN recorders' /\ recorders[r].pending = "stop"
                                     /\ recorders'[r].pending = "over")
            => recordedVideos'[1].duration \in
                  {(recorders[r].stoppedAt - recorders[r].startedAt) \div 1000,
                   (now - recorders[r].startedAt) \div 1000}
      ]_vars

\* the artifacts built from recorder r
VideosOf(r) == {i \in DOMAIN recordedVideos : recordedVideos[i].rec = r}

\* C14: every stop of a started recording leaves isRecording false and
\* queues the stop task, which runs and adds exactly one RecordedVideo at the
\* head of the list, with or without a thumbnail; no recording has more than
\* one artifact.
C14_StopYieldsOneArtifact ==
    /\ [](\A r \in DOMAIN recorders : Cardinality(VideosOf(r)) <= 1)
    /\ [][ (isRecording /\ ActiveRecorders # {}
               /\ \E thr \in {"none", "ctor", "start"} : handleToggleRecording(thr))
            => /\ isRecording' = FALSE
               /\ \A r \in ActiveRecorders : recorders'[r].pending = "stop"
               /\ recordedVideos' = recordedVideos
         ]_vars
    /\ [][ \A r \in DOMAIN recorders :
               (recorders[r].pending = "stop" /\ recorders'[r].pending # "stop")
               => /\ recorders'[r].pending = "over"
                  /\ recordedVideos' # <<>>
                  /\ recordedVideos'[1].rec = r
                  /\ recordedVideos'[1].thumbnailUrl \in {"", "data:image/jpeg"}
                  /\ Len(recordedVideos') =
                        (IF Len(recordedVideos) <= KeepRecent
                         THEN Len(recordedVideos) + 1 ELSE Len(recordedVideos))
                  /\ isRecording' = isRecording
         ]_vars
    /\ \A r \in 1..MaxRecorders :
          (r \in DOMAIN recorders /\ recorders[r].pending = "stop")
             ~> (r \in DOMAIN recorders /\ recorders[r].pending = "over"
                                        /\ VideosOf(r) # {})

\* two stopped recordings have one artifact each, one with and one without
\* a thumbnail
C14_Witness ==
    /\ Len(recordedVideos) = 2
    /\ recordedVideos[1].rec # recordedVideos[2].rec
    /\ recordedVideos[1].thumbnailUrl # recordedVideos[2].thumbnailUrl
    /\ ~isRecording
    /\ NoStopPending

\* list is old with one new element put at its head and, when old was full,
\* its last (oldest) element dropped; the others keep their order
Prepended(old, list) ==
    /\ Len(list) = (IF Len(old) <= KeepRecent THEN Len(old) + 1 ELSE Len(old))
    /\ \A i \in 2..Len(list) : list[i] = old[i - 1]
    /\ \A i \in DOMAIN old : old[i] # list[1]

\* C15: the host keeps at most 5 captured images and at most 5 recorded
\* videos, newest first: every change of a list puts the new artifact at the
\* head, keeps the order of the others and, when the list was full, drops
\* exactly the oldest.
C15_BoundedNewestFirst ==
    /\ [](Len(capturedImages) <= KeepRecent + 1 /\ Len(recordedVideos) <= KeepRecent + 1)
    /\ [](\A i \in 1..(Len(capturedImages) - 1) :
              capturedImages[i].n > capturedImages[i + 1].n)
    /\ [][ capturedImages' # capturedImages => Prepended(capturedImages, capturedImages')
         ]_vars
    /\ [][ recordedVideos' # recordedVideos => Prepended(recordedVideos, recordedVideos')
         ]_vars

\* both lists are full and have evicted their first artifact
C15_Witness ==
    /\ Len(capturedImages) = KeepRecent + 1
    /\ capturedImages[KeepRecent + 1].n = 2
    /\ Len(recordedVideos) = KeepRecent + 1
    /\ recordedVideos[KeepRecent + 1].rec = 2

\* the rectangle at (x%, y%) of size (width%, height%) scaled by zoom about
\* the origin of the viewport
ProjectedBox(risk, factor) ==
    [left |-> (factor * risk.x * Viewport[1]) \div 100,
     top |-> (factor * risk.y * Viewport[2]) \div 100,
     width |-> (factor * risk.width * Viewport[1]) \div 100,
     height |-> (factor * risk.height * Viewport[2]) \div 100]

\* C16: for every overlay of the supplied set and zoom in {1, 2}, the
\* rendered rectangle is the overlay's percentage rectangle scaled by the
\* current zoom factor about the viewport origin.
C16_OverlayProjection ==
    (mounted /\ connectionStatus = "connected")
       => \A risk \in RiskBoxes(detectedRisks) :
             RenderedBox(risk) = ProjectedBox(risk, zoomLevel)

\* C17: an unreachable endpoint takes the mounted session to Failed; the UI
\* offers exactly one retry action when the session is Failed and none when
\* it is Connecting or Connected; the retry action reloads the page, after
\* which the stream is mounted again and a negotiation starts from Connecting.
C17_RetryFromFailed ==
    /\ [](RetryActions = (IF mounted /\ connectionStatus = "error" THEN 1 ELSE 0))
    /\ [][ \A s \in DOMAIN sess :
               (sess[s].isMounted /\ fetchSettled(s, "reject"))
               => connectionStatus' = "error"
         ]_vars
    /\ [][ (sess # <<>> /\ sess' = <<>>)
            => /\ RetryActions = 1
               /\ ~mounted'
               /\ connectionStatus' = "connecting"
               /\ errorMessage' = NoError
               /\ pcs' = <<>>
         ]_vars
    /\ (~mounted /\ sess = <<>>)
          ~> (mounted /\ Len(sess) = 1 /\ sess[1].step = "offer" /\ sess[1].posts = 0
                      /\ connectionStatus = "connecting")

\* the endpoint was unreachable: the session is Failed and the retry is offered
C17_Witness ==
    /\ RetryActions = 1
    /\ Len(sess) = 1
    /\ sess[1].step = "caught"
    /\ sess[1].posts = 1
    /\ sess[1].answer = "none"
    /\ errorMessage = ErrorText

\* C18: handleCapture run while captureFrame() returns null reports the
\* notice "Capture failed" and changes nothing else: no CapturedImage is
\* added, and the recording state and the session state stay as they are.
C18_CaptureNotReady ==
    [][ \A ctx \in BOOLEAN :
            (handleCapture(ctx) /\ captureFrame(ctx) = "")
            => /\ toast' = <<"error", "Capture failed">>
               /\ UNCHANGED <<capturedImages, recordedVideos, isRecording, recorders,
                              mediaRecorderRef, recordedChunksRef, recordingStartTimeRef>>
               /\ UNCHANGED lsVars
               /\ UNCHANGED <<viewerVars, cameras>>
      ]_vars

\* Snapshot was pressed while recording a connected stream whose first frame
\* was not decoded yet
C18_Witness ==
    /\ toast = <<"error", "Capture failed">>
    /\ isRecording
    /\ mounted
    /\ connectionStatus = "connected"
    /\ srcObject # 0
    /\ videoWidth = 0
    /\ capturedImages = <<>>

\* C19: connectionStatus becomes 'connected' only in the ontrack of the
\* current session's peer connection for a track that carries a stream; in
\* that step the stream becomes the video's srcObject and the value of
\* getStream(). A track without a stream changes none of the three, and a
\* session that negotiates is Connected only with its own stream attached.
C19_ConnectedOnlyByTrack ==
    /\ [][ (connectionStatus' = "connected" /\ connectionStatus # "connected")
            => \E s \in DOMAIN sess :
                  /\ s = Current
                  /\ sess[s].isMounted
                  /\ ontrack(s, TRUE)
                  /\ srcObject' = sess[s].pc
                  /\ getStream' = sess[s].pc
         ]_vars
    /\ [][ \A s \in DOMAIN sess :
               ontrack(s, FALSE) => UNCHANGED <<connectionStatus, srcObject, streamRef>>
         ]_vars
    /\ []((HasCurrent /\ sess[Current].url # "" /\ connectionStatus = "connected")
            => /\ pcs[sess[Current].pc].tracked
               /\ srcObject = sess[Current].pc
               /\ getStream = sess[Current].pc)

\* the second session of the instance is Connected with its own stream
C19_Witness ==
    /\ HasCurrent
    /\ Current = 2
    /\ connectionStatus = "connected"
    /\ sess[2].pc # 0
    /\ streamRef = sess[2].pc
    /\ srcObject = sess[2].pc

\* the order of the protocol steps of one negotiation
StepOrder ==
    {<<"offer", "local">>, <<"local", "fetch">>, <<"fetch", "text">>,
     <<"text", "remote">>, <<"remote", "done">>}

\* C20: a negotiation adds the receive-only transceiver, creates the offer,
\* sets it as local description, POSTs it, and only after a 2xx response
\* applies the body as remote description: no step is skipped or reordered,
\* and after a non-2xx response or a failed fetch the negotiation ends
\* without setRemoteDescription.
C20_ProtocolOrder ==
    /\ [](\A s \in DOMAIN sess :
             /\ sess[s].pc # 0 => pcs[sess[s].pc].recvonly
             /\ sess[s].step \in {"offer", "local"} => sess[s].posts = 0
             /\ sess[s].step \in {"fetch", "text", "remote", "done"} => sess[s].posts = 1
             /\ (sess[s].pc # 0 /\ pcs[sess[s].pc].remote) => sess[s].step = "done")
    /\ [][ \A s \in DOMAIN sess :
               (s \in DOMAIN sess' /\ sess'[s].step # sess[s].step)
               => \/ <<sess[s].step, sess'[s].step>> \in StepOrder
                  \/ sess'[s].step = "caught"
         ]_vars
    /\ [][ \A s \in DOMAIN sess' \ DOMAIN sess :
               sess'[s].step \in {"offer", "returned"} /\ sess'[s].posts = 0
         ]_vars
    /\ [][ \A s \in DOMAIN sess, r \in {"bad", "reject"} :
               fetchSettled(s, r) => /\ sess'[s].step = "caught"
                                     /\ pcs' = pcs
         ]_vars

\* a negotiation went through all its steps
C20_Witness ==
    \E s \in DOMAIN sess :
        /\ sess[s].step = "done"
        /\ sess[s].posts = 1
        /\ sess[s].answer = "valid"
        /\ pcs[sess[s].pc].remote
        /\ pcs[sess[s].pc].recvonly

\* the chunks of a blob are chunks of recorder r in the order of their emission
OwnChunksInOrder(chunks, r) ==
    /\ \A i \in DOMAIN chunks : chunks[i][1] = r
    /\ \A i \in 1..(Len(chunks) - 1) : chunks[i][2] < chunks[i + 1][2]

\* C21: for a recording that is alone from its start to its finalization,
\* the finalized blob holds, in emission order, exactly the non-empty chunks
\* its recorder delivered (the timeslice chunks and the final one); zero-size
\* chunks are not accumulated; its duration is the whole seconds elapsed.
C21_BlobIsOwnNonEmptyChunks ==
    [][ \A r \in DOMAIN recorders :
            (r \in DOMAIN recorders' /\ recorders[r].pending = "stop"
                                     /\ recorders'[r].pending = "over")
            => /\ recordedVideos' # <<>>
               /\ recordedVideos'[1].rec = r
               /\ OwnChunksInOrder(recordedVideos'[1].chunks, r)
               /\ Len(recordedVideos'[1].chunks) \in
                     {recorders[r].kept, recorders[r].kept + 1}
               /\ Len(recordedVideos'[1].chunks) = recorders[r].kept + 1
                     => recordedVideos'[1].chunks[Len(recordedVideos'[1].chunks)]
                           = <<r, recorders[r].emitted + 1>>
               /\ recordedVideos'[1].duration
                     = (now - recorders[r].startedAt) \div Timeslice
      ]_vars

\* a recording ran 3 seconds with one chunk per second: 3 chunks, duration 3
C21_Witness ==
    \E i \in DOMAIN recordedVideos :
        /\ Len(recordedVideos[i].chunks) = 3
        /\ recordedVideos[i].duration = 3
        /\ recordedVideos[i].chunks[1][2] = 1

\* C22: a negotiation that ended in failure (non-2xx response, network
\* error, rejected answer) has closed the peer connection it created, and no
\* peer connection is open while the session is Failed.
C22_FailureReleasesPc ==
    /\ \A s \in DOMAIN sess : sess[s].step = "caught" => pcs[sess[s].pc].closed
    /\ (mounted /\ connectionStatus = "error") => OpenPcs = {}

\* C23: at most one negotiation is live, and any later event of a superseded
\* negotiation (a settled await, its failure, an inbound track on its
\* connection) leaves the connection status, the error message, the stream
\* of getStream() and the video source as they are.
C23_SupersededIsInert ==
    /\ [](Cardinality(Live) <= 1)
    /\ [][ \A s \in DOMAIN sess :
              (/\ ~sess[s].isMounted
               /\ s \in DOMAIN sess'
               /\ \/ sess'[s] # sess[s]
                  \/ sess[s].pc # 0 /\ pcs'[sess[s].pc] # pcs[sess[s].pc])
              => UNCHANGED <<connectionStatus, errorMessage, streamRef, srcObject>>
         ]_vars

\* a superseded negotiation failed on its closed connection while its
\* replacement is Connecting without an error message
C23_Witness ==
    /\ HasCurrent
    /\ sess[Current].isMounted
    /\ sess[Current].pc # 0
    /\ connectionStatus = "connecting"
    /\ errorMessage = NoError
    /\ \E s \in 1..(Current - 1) :
          /\ ~sess[s].isMounted
          /\ sess[s].step = "caught"
          /\ sess[s].posts = 0

\* C24: the effect run of every mount and of every streamUrl change, whatever
\* the new value, starts a new session, the only live one, with the
\* displayed status Connecting and no error message.
C24_NewSessionStartsConnecting ==
    [][ (phase = "effect" /\ phase' = "idle")
        => /\ Len(sess') = Len(sess) + 1
           /\ \A s \in DOMAIN sess' : sess'[s].isMounted <=> s = Len(sess')
           /\ connectionStatus' = "connecting"
           /\ errorMessage' = NoError
      ]_vars

\* C25: recordings are isolated, also when Record is clicked between stop()
\* and the stopped recorder's final events: the artifact of a recorder holds
\* exactly that recorder's non-empty chunks and its own elapsed seconds, and
\* the buffer of the recording in progress holds no chunk of another recorder.
C25_RecordingsIsolated ==
    /\ [](\A r \in DOMAIN recorders :
              recorders[r].state = "recording"
              => \A i \in DOMAIN recordedChunksRef : recordedChunksRef[i][1] = r)
    /\ [][ \A r \in DOMAIN recorders :
              (r \in DOMAIN recorders' /\ recorders[r].pending = "stop"
                                       /\ recorders'[r].pending = "over")
              => /\ recordedVideos' # <<>>
                 /\ recordedVideos'[1].rec = r
                 /\ OwnChunksInOrder(recordedVideos'[1].chunks, r)
                 /\ Len(recordedVideos'[1].chunks) >= recorders[r].kept
                 /\ Len(recordedVideos'[1].chunks) <= recorders[r].kept + 1
                 /\ recordedVideos'[1].duration
                       = (recorders[r].stoppedAt - recorders[r].startedAt) \div Timeslice
         ]_vars

\* C26: whenever the media viewer is open, selectedMedia is not null and
\* mediaType is the variant of the selected media, whatever the interleaving
\* of clicks, closes and the delayed clears.
C26_OpenViewerHasMedia ==
    viewerOpen => (selectedMedia # NoMedia /\ mediaType = selectedMedia[1])

\* C30: no camera track acquired by an unmounted CameraFeed is live.
C30_NoLiveTrackAfterUnmount ==
    \A c \in DOMAIN cameras : ~cameras[c].mounted => ~cameras[c].live

\* C27: whenever the displayed status is Connected, the instance holds an
\* open peer connection and the video source is the stream getStream()
\* returns.
C27_ConnectedHasOpenPc ==
    (mounted /\ phase = "idle" /\ connectionStatus = "connected")
       => /\ pcRef # 0
          /\ ~pcs[pcRef].closed
          /\ srcObject # 0
          /\ srcObject = getStream

\* C28: whenever isRecording is true, the toggle-recording control of the
\* mounted LiveStream is enabled, whatever happened to the session since the
\* recording started.
C28_RecordingCanBeStopped ==
    (mounted /\ phase = "idle" /\ isRecording) => RecordEnabled

\* C29: the displayed status only moves Connecting -> Connected or
\* Connecting -> Failed while the session stays the same; Connected never
\* becomes Failed nor Failed Connected; Connected and Failed are left only
\* for Connecting, by the start of a new session or by the reload of Retry.
C29_StatusTransitions ==
    [][ connectionStatus' # connectionStatus
        => \/ /\ connectionStatus = "connecting"
              /\ connectionStatus' \in {"connected", "error"}
              /\ Len(sess') = Len(sess)
              /\ sess[Current].isMounted
           \/ /\ connectionStatus \in {"connected", "error"}
              /\ connectionStatus' = "connecting"
              /\ Len(sess') = Len(sess) + 1 \/ sess' = <<>>
      ]_vars

\* an earlier session was Connected, its replacement started at Connecting
\* and ended Failed
C29_Witness ==
    /\ HasCurrent
    /\ connectionStatus = "error"
    /\ sess[Current].step = "caught"
    /\ sess[Current].isMounted
    /\ \E s \in 1..(Current - 1) : sess[s].pc # 0 /\ streamRef = sess[s].pc

====
